---------------------------- MODULE Spec2Model ----------------------------
(***************************************************************************)
(* pysolr: the SolrCloud client (SolrCloud, ZooKeeper) of src/pysolr.py.   *)
(*                                                                         *)
(* Strings are sequences of one-character tokens, so that "%s/%s"          *)
(* formatting and str.split(",") are computed, not assumed: the collection *)
(* name x is <<"x">>, the alias value "b,x" is <<"b", ",", "x">>.          *)
(* A Python dict is a sequence of values in insertion order where the code *)
(* iterates over it (shards, replicas) and a function where it looks a key *)
(* up (collections, aliases).                                              *)
(***************************************************************************)
EXTENDS Integers, Sequences, FiniteSets, TLC

VARIABLES
    collections,    \* ZooKeeper.collections: collection name -> state document
    aliases,        \* ZooKeeper.aliases: alias name -> "c1,c2" string, or None
    ret,            \* the last direct call of a ZooKeeper resolution method
    client,         \* the SolrCloud instance (collection, retry_count) or NoClient
    ctor,           \* the last call of SolrCloud.__init__ and how it ended
    url,            \* SolrCloud.url (self.url), shared by all callers
    up,             \* the Solr nodes that answer a request with status 200
    pc,             \* per caller thread: position in _update / _send_request
    kind,           \* per caller thread: "read" (search) or "write" (update)
    retry_number,   \* per caller thread: the loop variable of _send_request
    attempt,        \* per caller thread: what the current attempt resolved
    log,            \* per caller thread: the steps of the current call, in order
    slept,          \* per caller thread: the time the current call has slept
    result,         \* per caller thread: how the last call ended
    hist,           \* history of the calls of t1, kept by FailoverSpec only
    cursor,         \* Solr.search with a cursorMark and the iteration of its Results
    deletion,       \* the last call of Solr.delete and the requests it sent
    liveNodes,      \* ZooKeeper.liveNodes: the children of /live_nodes
    state,          \* ZooKeeper.state: the connection state the listener recorded
    watches,        \* the collections whose state.json has a DataWatch
    reader,         \* a getHosts call that runs beside the watch callbacks
    zhist           \* history of the notifications and of the direct calls

vars == <<collections, aliases, ret, client, ctor, url, up,
          pc, kind, retry_number, attempt, log, slept, result, hist,
          cursor, deletion, liveNodes, state, watches, reader, zhist>>

storeVars == <<collections, aliases>>
callVars == <<pc, kind, retry_number, attempt, log, slept, result>>
zkVars == <<liveNodes, state, watches, reader, zhist>>
cloudVars == <<storeVars, ret, client, ctor, url, up, callVars, hist, zkVars>>
solrVars == <<cursor, deletion>>

-----------------------------------------------------------------------------
(* Bounds of the model *)

MaxShards == 2
MaxReplicas == 2
MaxTargets == 2
MaxRetryCount == 3
MaxDepth == 6
MaxFailoverRetries == 2
MaxDocs == 3
MaxRows == 2
MaxIds == 3

-----------------------------------------------------------------------------
(* Values *)

\* A Python value that is a dict or None: Dict(f) or None.
None == [none |-> TRUE]
Dict(f) == [dict |-> f]
NoURL == <<>>

X == <<"x">>
Y == <<"y">>
A == <<"a">>
B == <<"b">>
U1 == <<"u", "1">>
U2 == <<"u", "2">>

CollNames == {X, Y}
AliasNames == {A, B}
Names == CollNames \cup AliasNames
BaseURLs == {U1, U2}

\* ZooKeeper.ACTIVE, ZooKeeper.TRUE, ZooKeeper.FALSE
ACTIVE == "active"
TRUE_ == "true"
FALSE_ == "false"

Range(s) == {s[i] : i \in DOMAIN s}
SeqsUpTo(S, n) == UNION {[1..k -> S] : k \in 0..n}

Replicas == [state : {ACTIVE, "down"}, leader : {TRUE_, FALSE_}, base_url : BaseURLs]
ShardStates == {ACTIVE, "inactive"}

\* The replica counts of the shards of a document: at most MaxShards shards
\* that hold at most MaxReplicas replicas in all
RECURSIVE Sum(_)
Sum(ns) == IF ns = <<>> THEN 0 ELSE ns[1] + Sum(Tail(ns))
Shapes == {ns \in SeqsUpTo(0..MaxReplicas, MaxShards) : Sum(ns) <= MaxReplicas}

\* A collection document: shard i has state sts[i] and the next shape[i]
\* replicas of reps
Doc(shape, sts, reps) ==
    [shards |->
        [i \in 1..Len(shape) |->
            [state |-> sts[i],
             replicas |-> SubSeq(reps, Sum(SubSeq(shape, 1, i - 1)) + 1,
                                       Sum(SubSeq(shape, 1, i)))]]]

\* The documents of the alias cases: one active shard with one active replica
SmallDocs ==
    {[shards |-> <<[state |-> ACTIVE, replicas |-> <<r>>]>>] :
        r \in {q \in Replicas : q.state = ACTIVE}}

\* The documents the notifications deliver while requests run: one active
\* shard with a replica on each of the two nodes.
NodeReplicas(u) == {q \in Replicas : q.base_url = u}
ClusterDocs ==
    {[shards |-> <<[state |-> ACTIVE, replicas |-> <<r1, r2>>]>>] :
        r1 \in NodeReplicas(U1), r2 \in NodeReplicas(U2)}

RECURSIVE Join(_)
Join(targets) ==
    IF Len(targets) = 1 THEN targets[1]
    ELSE targets[1] \o <<",">> \o Join(Tail(targets))

AliasValues ==
    {<<>>} \cup {Join(ts) : ts \in SeqsUpTo(Names, MaxTargets) \ {<<>>}}

PartialMaps(K, V) == UNION {[D -> V] : D \in SUBSET K}

EmptyDict == Dict(<<>>)
AliasMaps == {Dict(f) : f \in PartialMaps(AliasNames, AliasValues)} \cup {None}

-----------------------------------------------------------------------------
(* Pure helpers of the resolution methods *)

\* Python truthiness: of a dict or None, and of a list.  The default
\* seen_aliases=None is the empty list here: "if seen_aliases" is the only
\* test the code makes of it, and it takes None and [] alike.
Truthy(v) == v # None /\ v.dict # <<>>
TruthyList(l) == l # <<>>

\* str.split(","), on a string of tokens.
RECURSIVE SplitFrom(_, _, _)
SplitFrom(s, pieces, cur) ==
    IF s = <<>> THEN Append(pieces, cur)
    ELSE IF Head(s) = ","
         THEN SplitFrom(Tail(s), Append(pieces, cur), <<>>)
         ELSE SplitFrom(Tail(s), pieces, Append(cur, Head(s)))

Split(s) == SplitFrom(s, <<>>, <<>>)

\* "%s/%s" % (host, collname)
FormatURL(host, collname) == host \o <<"/">> \o collname

UnknownCollection == "Unknown collection"
NoActiveShards == "ZooKeeper returned no active shards!"
RecursionError == "RecursionError"
NoError == "none"

Return(hosts, seen) == [err |-> NoError, hosts |-> hosts, seen |-> seen]
Raise(e, seen) == [err |-> e, hosts |-> <<>>, seen |-> seen]

\* getHosts, the test of line 1525
IsAlias(collname) == Truthy(aliases) /\ collname \in DOMAIN aliases.dict

ShardSelectedAnyState(shard) == TRUE

\* getHosts, the test of a shard, line 1535
ShardSelected(shard) == shard.state = ACTIVE

ReplicaSelectedAnyRole(replica, only_leader) == replica.state = ACTIVE

\* getHosts, the test of a replica, lines 1540-1543
ReplicaSelected(replica, only_leader) ==
    /\ replica.state = ACTIVE
    /\ (~only_leader \/ replica.leader = TRUE_)

AppendAlways(hosts, h) == Append(hosts, h)

\* "if base_url not in hosts: hosts.append(base_url)"
AppendNew(hosts, h) == IF h \in Range(hosts) THEN hosts ELSE Append(hosts, h)

RECURSIVE ReplicaLoop(_, _, _, _)
ReplicaLoop(replicas, i, only_leader, hosts) ==
    IF i > Len(replicas) THEN hosts
    ELSE ReplicaLoop(replicas, i + 1, only_leader,
                     IF ReplicaSelected(replicas[i], only_leader)
                     THEN AppendNew(hosts, replicas[i].base_url)
                     ELSE hosts)

RECURSIVE ShardLoop(_, _, _, _)
ShardLoop(shards, i, only_leader, hosts) ==
    IF i > Len(shards) THEN hosts
    ELSE ShardLoop(shards, i + 1, only_leader,
                   IF ShardSelected(shards[i])
                   THEN ReplicaLoop(shards[i].replicas, 1, only_leader, hosts)
                   ELSE hosts)

\* getHosts, lines 1532-1546: the loops over the shards and their replicas
CollectionHosts(collection, only_leader) ==
    ShardLoop(collection.shards, 1, only_leader, <<>>)

SeenBeforeNever(collname, seen_aliases) == FALSE

\* getAliasHosts, lines 1550-1553: the name was already walked
SeenBefore(collname, seen_aliases) ==
    TruthyList(seen_aliases) /\ collname \in Range(seen_aliases)

\* getAliasHosts, lines 1554-1556: the list the nested calls share
SeenWith(collname, seen_aliases) ==
    Append(IF TruthyList(seen_aliases) THEN seen_aliases ELSE <<>>, collname)

MergeReplace(hosts, more) == more

\* getAliasHosts, lines 1560-1562: the hosts of one target join the list
RECURSIVE MergeNew(_, _)
MergeNew(hosts, more) ==
    IF more = <<>> THEN hosts
    ELSE MergeNew(AppendNew(hosts, Head(more)), Tail(more))

LookupCollectionLenient(collname, only_leader, seen_aliases) ==
    IF collname \notin DOMAIN collections
    THEN Return(<<>>, seen_aliases)
    ELSE Return(CollectionHosts(collections[collname], only_leader), seen_aliases)

\* getHosts, lines 1528-1547: the name is not an alias
LookupCollection(collname, only_leader, seen_aliases) ==
    IF collname \notin DOMAIN collections
    THEN Raise(UnknownCollection, seen_aliases)
    ELSE Return(CollectionHosts(collections[collname], only_leader), seen_aliases)

\* getHosts and getAliasHosts call each other; depth counts the nested getHosts
\* calls, and the interpreter gives up (RecursionError) beyond its limit.
RECURSIVE getHosts(_, _, _, _)
RECURSIVE AliasLoop(_, _, _, _, _, _)

AliasLoop(targets, i, only_leader, seen, hosts, depth) ==
    IF i > Len(targets) THEN Return(hosts, seen)
    ELSE LET r == getHosts(targets[i], only_leader, seen, depth + 1)
         IN  IF r.err # NoError THEN r
             ELSE AliasLoop(targets, i + 1, only_leader, r.seen,
                            MergeNew(hosts, r.hosts), depth)

getAliasHosts(collname, only_leader, seen_aliases, depth) ==
    IF SeenBefore(collname, seen_aliases) THEN Return(<<>>, seen_aliases)
    ELSE AliasLoop(Split(aliases.dict[collname]), 1, only_leader,
                   SeenWith(collname, seen_aliases), <<>>, depth)

getHosts(collname, only_leader, seen_aliases, depth) ==
    IF depth > MaxDepth THEN Raise(RecursionError, seen_aliases)
    ELSE IF IsAlias(collname)
         THEN getAliasHosts(collname, only_leader, seen_aliases, depth)
         ELSE LookupCollection(collname, only_leader, seen_aliases)

\* getHosts as a caller calls it: seen_aliases=None
GetHosts(collname, only_leader) == getHosts(collname, only_leader, <<>>, 1)

\* random.choice(hosts)
Choices(hosts) == Range(hosts)

\* getRandomURL: the outcomes the random choice allows
getRandomURL(collname, only_leader) ==
    LET r == GetHosts(collname, only_leader)
    IN  IF r.err # NoError THEN {[err |-> r.err, url |-> NoURL]}
        ELSE IF ~TruthyList(r.hosts) THEN {[err |-> NoActiveShards, url |-> NoURL]}
        ELSE {[err |-> NoError, url |-> FormatURL(h, collname)] : h \in Choices(r.hosts)}

getLeaderURL(collname) == getRandomURL(collname, TRUE)

-----------------------------------------------------------------------------
(* Initial values of the caller's side *)

Threads == {"t1", "t2"}
RetryCounts == 0..MaxRetryCount

NoRet == [op |-> "none"]
NoCtor == [called |-> FALSE]
NoAttempt ==
    [resolved |-> FALSE, err |-> NoError, hosts |-> <<>>, leaders |-> <<>>,
     sent |-> NoURL, prev |-> NoURL]
NoCursor == [pc |-> "none"]
NoDeletion == [called |-> FALSE]
NoHist ==
    [failed |-> FALSE, listed |-> FALSE, sound |-> FALSE, dead |-> FALSE,
     leader |-> NoURL]

CallerInit ==
    /\ ret = NoRet
    /\ client = None
    /\ ctor = NoCtor
    /\ url = NoURL
    /\ up = BaseURLs
    /\ pc = [t \in Threads |-> "idle"]
    /\ kind = [t \in Threads |-> "read"]
    /\ retry_number = [t \in Threads |-> 0]
    /\ attempt = [t \in Threads |-> NoAttempt]
    /\ log = [t \in Threads |-> <<>>]
    /\ slept = [t \in Threads |-> 0]
    /\ result = [t \in Threads |-> "none"]
    /\ hist = NoHist

\* No call of the plain Solr methods
SolrInit ==
    /\ cursor = NoCursor
    /\ deletion = NoDeletion

NoReader == [pc |-> "none"]
NoZHist ==
    [announced |-> {}, last |-> [kind |-> "none"], quiet |-> FALSE,
     repeated |-> FALSE, differed |-> FALSE, chose |-> [t \in Threads |-> NoURL]]

\* ZooKeeper.__init__, lines 1457 and 1459, before any notification: no live
\* node, no connection state recorded, no state.json watched
ZkInit ==
    /\ liveNodes = {}
    /\ state = None
    /\ watches = {}
    /\ reader = NoReader
    /\ zhist = NoZHist

-----------------------------------------------------------------------------
(* Direct calls of the resolution methods, and SolrCloud.__init__ *)

CallGetHostsLeak(collname, only_leader) ==
    /\ LET r == getHosts(collname, only_leader,
                         IF ret.op = "getHosts" THEN <<ret.name>> ELSE <<>>, 1)
       IN  ret' = [op |-> "getHosts", name |-> collname, only_leader |-> only_leader,
                   err |-> r.err, hosts |-> r.hosts, url |-> NoURL]
    /\ UNCHANGED <<storeVars, up, client, ctor, url, callVars>>

CallGetHosts(collname, only_leader) ==
    /\ LET r == GetHosts(collname, only_leader)
       IN  ret' = [op |-> "getHosts", name |-> collname, only_leader |-> only_leader,
                   err |-> r.err, hosts |-> r.hosts, url |-> NoURL]
    /\ UNCHANGED <<storeVars, up, client, ctor, url, callVars>>

CallGetRandomURL(collname) ==
    /\ \E o \in getRandomURL(collname, FALSE) :
          ret' = [op |-> "getRandomURL", name |-> collname, only_leader |-> FALSE,
                  err |-> o.err, hosts |-> <<>>, url |-> o.url]
    /\ UNCHANGED <<storeVars, up, client, ctor, url, callVars>>

CallGetLeaderURL(collname) ==
    /\ \E o \in getLeaderURL(collname) :
          ret' = [op |-> "getLeaderURL", name |-> collname, only_leader |-> TRUE,
                  err |-> o.err, hosts |-> <<>>, url |-> o.url]
    /\ UNCHANGED <<storeVars, up, client, ctor, url, callVars>>

\* SolrCloud.__init__: getRandomURL raises before any field is set
Construct(collname, rc) ==
    /\ client = None
    /\ \E o \in getRandomURL(collname, FALSE) :
          /\ ctor' = [called |-> TRUE, name |-> collname, err |-> o.err]
          /\ IF o.err = NoError
             THEN /\ client' = [collection |-> collname, retry_count |-> rc]
                  /\ url' = o.url
             ELSE UNCHANGED <<client, url>>
    /\ UNCHANGED <<storeVars, up, ret, callVars>>

-----------------------------------------------------------------------------
(* ZooKeeper.__init__ and its watch callbacks.  data is None (no data) or   *)
(* Dict(j), j the decoded JSON document.                                    *)

StoreInit ==
    /\ collections = <<>>
    /\ aliases = EmptyDict

\* "if data": data is the node's bytes, and the bytes of any JSON document,
\* "{}" too, are not empty
HasData(data) == data # None

UpdateReplace(d, j) == j

\* dict.update
Update(d, j) == [k \in DOMAIN d \cup DOMAIN j |-> IF k \in DOMAIN j THEN j[k] ELSE d[k]]

watchClusterState(data) ==
    /\ collections' = IF ~HasData(data) THEN collections ELSE data.dict
    /\ UNCHANGED <<aliases, up, ret, client, ctor, url, callVars>>

watchCollectionState(data) ==
    /\ collections' = IF ~HasData(data) THEN collections ELSE Update(collections, data.dict)
    /\ UNCHANGED <<aliases, up, ret, client, ctor, url, callVars>>

COLLECTION == "collection"

watchAliases(data) ==
    /\ aliases' = IF HasData(data)
                  THEN IF COLLECTION \in DOMAIN data.dict
                       THEN Dict(data.dict[COLLECTION])
                       ELSE aliases
                  ELSE None
    /\ UNCHANGED <<collections, up, ret, client, ctor, url, callVars>>

-----------------------------------------------------------------------------
(* The resolution methods applied once to a store drawn from the bounded     *)
(* stores: the store before any notification, every document of one         *)
(* collection without aliases, and every alias map over small documents.    *)

ResolveInit ==
    /\ \/ StoreInit
       \/ \E shape \in Shapes :
          \E sts \in [1..Len(shape) -> ShardStates] :
          \E reps \in [1..Sum(shape) -> Replicas] :
             /\ collections = [c \in {X} |-> Doc(shape, sts, reps)]
             /\ aliases = EmptyDict
       \/ /\ collections \in [CollNames -> SmallDocs]
          /\ aliases \in AliasMaps
    /\ CallerInit
    /\ SolrInit
    /\ ZkInit

NoHistory == UNCHANGED <<hist, solrVars, zkVars>>

\* Nothing was called yet
Fresh == ret = NoRet /\ ~ctor.called

ResolveNext ==
    \/ \E n \in Names, ol \in BOOLEAN : Fresh /\ CallGetHosts(n, ol) /\ NoHistory
    \/ \E n \in Names : Fresh /\ CallGetRandomURL(n) /\ NoHistory
    \/ \E n \in Names : Fresh /\ CallGetLeaderURL(n) /\ NoHistory
    \/ \E n \in Names : Fresh /\ Construct(n, MaxRetryCount) /\ NoHistory

ResolveSpec == ResolveInit /\ [][ResolveNext]_vars

-----------------------------------------------------------------------------
(* SolrCloud._update and SolrCloud._send_request, one caller thread t       *)

\* retry_timeout=0.2, in tenths of a second
retry_timeout == 2

Set(f, t, v) == [f EXCEPT ![t] = v]

FirstRetryKept(t) == retry_number[t]

\* range(self.retry_count) starts at 0 in every call
FirstRetry(t) == 0

\* search -> _select -> self._send_request
StartRead(t) ==
    /\ client # None
    /\ pc[t] = "idle"
    /\ pc' = Set(pc, t, "loop")
    /\ kind' = Set(kind, t, "read")
    /\ retry_number' = Set(retry_number, t, FirstRetry(t))
    /\ attempt' = Set(attempt, t, NoAttempt)
    /\ log' = Set(log, t, <<>>)
    /\ slept' = Set(slept, t, 0)
    /\ result' = Set(result, t, "none")
    /\ UNCHANGED <<storeVars, up, ret, client, ctor, url>>

\* add / delete / commit / optimize -> self._update
StartWrite(t) ==
    /\ client # None
    /\ pc[t] = "idle"
    /\ pc' = Set(pc, t, "update")
    /\ kind' = Set(kind, t, "write")
    /\ retry_number' = Set(retry_number, t, FirstRetry(t))
    /\ attempt' = Set(attempt, t, NoAttempt)
    /\ log' = Set(log, t, <<>>)
    /\ slept' = Set(slept, t, 0)
    /\ result' = Set(result, t, "none")
    /\ UNCHANGED <<storeVars, up, ret, client, ctor, url>>

\* _update, line 1429: an error of getLeaderURL is the caller's; then
\* Solr._update calls self._send_request
UpdateLeader(t) ==
    /\ pc[t] = "update"
    /\ \E o \in getLeaderURL(client.collection) :
          IF o.err = NoError
          THEN /\ url' = o.url
               /\ pc' = Set(pc, t, "loop")
               /\ log' = Set(log, t, Append(log[t], "leader"))
               /\ UNCHANGED result
          ELSE /\ pc' = Set(pc, t, "idle")
               /\ result' = Set(result, t, o.err)
               /\ UNCHANGED <<url, log>>
    /\ UNCHANGED <<storeVars, up, ret, client, ctor, kind, retry_number, attempt, slept>>

MoreAttemptsInclusive(t) == retry_number[t] <= client.retry_count

\* "for retry_number in range(self.retry_count)"
MoreAttempts(t) == retry_number[t] < client.retry_count

AttemptEndpointsCached(t) ==
    IF retry_number[t] = 0 THEN getRandomURL(client.collection, FALSE)
    ELSE {[err |-> NoError, url |-> url]}

\* line 1412: the endpoints the attempt may resolve
AttemptEndpoints(t) == getRandomURL(client.collection, FALSE)

\* The URL of the last request the call has sent
LastSent(t) == IF attempt[t].sent # NoURL THEN attempt[t].sent ELSE attempt[t].prev

AfterResolveErrorRaise(err) == [pc |-> "idle", result |-> err]

\* line 1414: the SolrError of getRandomURL is caught by the except clause
AfterResolveError(err) == [pc |-> "except", result |-> "none"]

\* line 1412, with what the store held when the attempt resolved
Resolve(t) ==
    /\ pc[t] = "loop"
    /\ MoreAttempts(t)
    /\ \E o \in AttemptEndpoints(t) :
          IF o.err = NoError
          THEN /\ url' = o.url
               /\ pc' = Set(pc, t, "send")
               /\ log' = Set(log, t, Append(log[t], "resolve"))
               /\ attempt' = Set(attempt, t,
                     [resolved |-> TRUE,
                      err |-> NoError,
                      hosts |-> GetHosts(client.collection, FALSE).hosts,
                      leaders |-> GetHosts(client.collection, TRUE).hosts,
                      sent |-> NoURL,
                      prev |-> LastSent(t)])
               /\ UNCHANGED result
          ELSE /\ pc' = Set(pc, t, AfterResolveError(o.err).pc)
               /\ result' = Set(result, t, AfterResolveError(o.err).result)
               /\ log' = Set(log, t, Append(log[t], "resolve_err"))
               /\ attempt' = Set(attempt, t,
                     [NoAttempt EXCEPT !.err = o.err, !.prev = LastSent(t)])
               /\ UNCHANGED url
    /\ UNCHANGED <<storeVars, up, ret, client, ctor, kind, retry_number, slept>>

\* Solr._create_full_url reads self.url
RequestURL(t) == url

AfterSendNoReturn(ok) == [pc |-> "except", result |-> "none"]

\* line 1413: "return" on success, the except clause otherwise
AfterSend(ok) ==
    IF ok THEN [pc |-> "idle", result |-> "ok"]
    ELSE [pc |-> "except", result |-> "none"]

\* The node of the URL answers the request with status 200
Answers(u) == \E h \in up : u = FormatURL(h, client.collection)

\* Solr._send_request: one HTTP request, which the server answers (ok) or not
Send(t, ok) ==
    /\ pc[t] = "send"
    /\ ok <=> Answers(RequestURL(t))
    /\ attempt' = Set(attempt, t, [attempt[t] EXCEPT !.sent = RequestURL(t)])
    /\ log' = Set(log, t, Append(log[t], IF ok THEN "send_ok" ELSE "send_fail"))
    /\ pc' = Set(pc, t, AfterSend(ok).pc)
    /\ result' = Set(result, t, AfterSend(ok).result)
    /\ UNCHANGED <<storeVars, up, ret, client, ctor, url, kind, retry_number, slept>>

NextRetrySkip(n) == n + 2
NextRetryStuck(n) == n

\* the next value of range(self.retry_count)
NextRetry(n) == n + 1

\* lines 1414-1422: time.sleep(self.retry_timeout), then the next iteration
Sleep(t) ==
    /\ pc[t] = "except"
    /\ slept' = Set(slept, t, slept[t] + retry_timeout)
    /\ log' = Set(log, t, Append(log[t], "sleep"))
    /\ retry_number' = Set(retry_number, t, NextRetry(retry_number[t]))
    /\ pc' = Set(pc, t, "loop")
    /\ UNCHANGED <<storeVars, up, ret, client, ctor, url, kind, attempt, result>>

\* lines 1424-1426: the loop ran out
Exhausted(t) ==
    /\ pc[t] = "loop"
    /\ ~MoreAttempts(t)
    /\ pc' = Set(pc, t, "idle")
    /\ result' = Set(result, t, "exhausted")
    /\ UNCHANGED <<storeVars, up, ret, client, ctor, url, kind, retry_number, attempt, log, slept>>

-----------------------------------------------------------------------------
(* One SolrCloud client with one caller, and the store changing under it    *)

CollectionStateData == {None} \cup {Dict([c \in {X} |-> d]) : d \in ClusterDocs}
ClusterStateData == {None, Dict(<<>>)}
AliasData == {None, Dict(<<>>), Dict([collection |-> [a \in {A} |-> X]])}

\* A node stops or starts to answer
NodeChange(h) ==
    /\ up' = IF h \in up THEN up \ {h} ELSE up \cup {h}
    /\ UNCHANGED <<storeVars, ret, client, ctor, url, callVars>>

Init == StoreInit /\ CallerInit /\ SolrInit /\ ZkInit

Next ==
    \/ \E data \in ClusterStateData : watchClusterState(data) /\ NoHistory
    \/ \E data \in CollectionStateData : watchCollectionState(data) /\ NoHistory
    \/ \E data \in AliasData : watchAliases(data) /\ NoHistory
    \/ \E h \in BaseURLs : NodeChange(h) /\ NoHistory
    \/ \E c \in {X, A}, rc \in RetryCounts : Construct(c, rc) /\ NoHistory
    \/ StartRead("t1") /\ NoHistory
    \/ StartWrite("t1") /\ NoHistory
    \/ UpdateLeader("t1") /\ NoHistory
    \/ Resolve("t1") /\ NoHistory
    \/ \E ok \in BOOLEAN : Send("t1", ok) /\ NoHistory
    \/ Sleep("t1") /\ NoHistory
    \/ Exhausted("t1") /\ NoHistory

Spec == Init /\ [][Next]_vars

\* A step of the caller: the thread runs on, time.sleep returns, and every
\* HTTP request returns or fails (the timeout of Solr._send_request)
CallStep(t) ==
    \/ UpdateLeader(t) /\ NoHistory
    \/ Resolve(t) /\ NoHistory
    \/ \E ok \in BOOLEAN : Send(t, ok) /\ NoHistory
    \/ Sleep(t) /\ NoHistory
    \/ Exhausted(t) /\ NoHistory

\* The documents of the fair runs: r1 on u1 is the leader, r2 on u2 a follower
LiveDocs ==
    {[shards |-> <<[state |-> ACTIVE,
                    replicas |-> <<[state |-> s1, leader |-> TRUE_, base_url |-> U1],
                                   [state |-> s2, leader |-> FALSE_, base_url |-> U2]>>]>>] :
        s1 \in {ACTIVE, "down"}, s2 \in {ACTIVE, "down"}}

LiveData == {Dict([c \in {X} |-> d]) : d \in LiveDocs}

LiveNext ==
    \/ \E data \in ClusterStateData : watchClusterState(data) /\ NoHistory
    \/ \E data \in LiveData : watchCollectionState(data) /\ NoHistory
    \/ \E h \in BaseURLs : NodeChange(h) /\ NoHistory
    \/ \E rc \in RetryCounts : Construct(X, rc) /\ NoHistory
    \/ StartRead("t1") /\ NoHistory
    \/ StartWrite("t1") /\ NoHistory
    \/ CallStep("t1")

\* The runs in which the caller is never suspended for ever
LiveSpec == Init /\ [][LiveNext]_vars /\ WF_vars(CallStep("t1"))

-----------------------------------------------------------------------------
(* One SolrCloud client of collection x on three nodes, with the history of  *)
(* its caller: the failover scenarios of src/tests/test_cloud.py             *)

U3 == <<"u", "3">>
Nodes == BaseURLs \cup {U3}

Flag(b) == IF b THEN TRUE_ ELSE FALSE_
ReplicaStates == {ACTIVE, "down"}

\* One active shard with a replica on each node: r1 or r2 is flagged leader,
\* r3 is an active follower
FailoverDocs ==
    {[shards |-> <<[state |-> ACTIVE,
                    replicas |-> <<[state |-> s1, leader |-> Flag(l = U1), base_url |-> U1],
                                   [state |-> s2, leader |-> Flag(l = U2), base_url |-> U2],
                                   [state |-> ACTIVE, leader |-> FALSE_, base_url |-> U3]>>]>>] :
        s1 \in ReplicaStates, s2 \in ReplicaStates, l \in BaseURLs}

FailoverRetryCounts == {0, MaxFailoverRetries}

FailoverData == {Dict([c \in {X} |-> d]) : d \in FailoverDocs}

\* The store lists an active replica of collection x on node h
Lists(h) ==
    /\ X \in DOMAIN collections
    /\ \E sh \in Range(collections[X].shards) :
          /\ sh.state = ACTIVE
          /\ \E r \in Range(sh.replicas) : r.state = ACTIVE /\ r.base_url = h

\* The store lists an active replica that answers
Listed == \E h \in up : Lists(h)

\* The store lists an active replica, and every one it lists answers
Sound == (\E h \in Nodes : Lists(h)) /\ (\A h \in Nodes \ up : ~Lists(h))

\* failed: an earlier call ended with an error; listed, dead: Listed, "no
\* node answers" have held since the current call started; sound: Sound held
\* when the current call started, and neither the store nor a node has
\* changed since; leader: the URL that _update resolved for the current call
History(t) ==
    LET started == pc[t] = "idle" /\ pc'[t] # "idle"
        ended == pc[t] # "idle" /\ pc'[t] = "idle"
    IN  /\ UNCHANGED <<solrVars, zkVars>>
        /\ hist' =
                [failed |-> hist.failed \/ (ended /\ result'[t] \notin {"none", "ok"}),
                 listed |-> (started \/ hist.listed) /\ Listed',
                 sound |-> \/ started /\ Sound'
                           \/ hist.sound /\ collections' = collections /\ up' = up,
                 dead |-> (started \/ hist.dead) /\ up' = {},
                 leader |-> IF started THEN NoURL
                            ELSE IF pc[t] = "update" /\ pc'[t] = "loop" THEN url'
                            ELSE hist.leader]

FailoverInit ==
    /\ collections \in [{X} -> FailoverDocs]
    /\ aliases = EmptyDict
    /\ ret = NoRet
    /\ client = None
    /\ ctor = NoCtor
    /\ url = NoURL
    /\ up = Nodes
    /\ pc = [t \in Threads |-> "idle"]
    /\ kind = [t \in Threads |-> "read"]
    /\ retry_number = [t \in Threads |-> 0]
    /\ attempt = [t \in Threads |-> NoAttempt]
    /\ log = [t \in Threads |-> <<>>]
    /\ slept = [t \in Threads |-> 0]
    /\ result = [t \in Threads |-> "none"]
    /\ hist = NoHist
    /\ cursor = NoCursor
    /\ deletion = NoDeletion
    /\ ZkInit

FailoverNext ==
    \/ \E data \in FailoverData : watchCollectionState(data) /\ History("t1")
    \/ \E h \in Nodes : NodeChange(h) /\ History("t1")
    \/ \E rc \in FailoverRetryCounts : Construct(X, rc) /\ History("t1")
    \/ StartRead("t1") /\ History("t1")
    \/ StartWrite("t1") /\ History("t1")
    \/ UpdateLeader("t1") /\ History("t1")
    \/ Resolve("t1") /\ History("t1")
    \/ \E ok \in BOOLEAN : Send("t1", ok) /\ History("t1")
    \/ Sleep("t1") /\ History("t1")
    \/ Exhausted("t1") /\ History("t1")

FailoverSpec == FailoverInit /\ [][FailoverNext]_vars

-----------------------------------------------------------------------------
(* Properties of the retry loop (Spec) *)

IsSend(e) == e \in {"send_ok", "send_fail"}
Count(l, e) == Cardinality({i \in DOMAIN l : l[i] = e})
Sends(t) == Count(log[t], "send_ok") + Count(log[t], "send_fail")

\* The steps of _send_request: the log without the step of _update
BodyLog(t) ==
    IF log[t] # <<>> /\ Head(log[t]) = "leader" THEN Tail(log[t]) ELSE log[t]

\* n attempts that each resolved an endpoint, failed on it and slept
FailLog(n) ==
    [i \in 1..(3 * n) |-> <<"resolve", "send_fail", "sleep">>[((i - 1) % 3) + 1]]

\* The URL is the base URL of one of hosts, for the client's collection
URLOfOneOf(u, hosts) ==
    \E h \in Range(hosts) : u = FormatURL(h, client.collection)

\* C1: every request of a write goes to the base URL of a replica that was an
\* active leader in an active shard of the collection when the attempt
\* resolved its endpoint; never to a replica that is only a non-leader.
C1_WriteSentToLeader ==
    \A t \in Threads :
        (kind[t] = "write" /\ attempt[t].sent # NoURL)
            => URLOfOneOf(attempt[t].sent, attempt[t].leaders)

\* C2: every request is sent right after a resolution of its own attempt, to
\* a host that resolution found active in the store as it was then; the
\* endpoint of an earlier attempt is not reused.
C2_AttemptUsesItsOwnEndpoint ==
    \A t \in Threads :
        /\ \A i \in DOMAIN log[t] :
              IsSend(log[t][i]) => (i > 1 /\ log[t][i - 1] = "resolve")
        /\ attempt[t].sent # NoURL
              => URLOfOneOf(attempt[t].sent, attempt[t].hosts)

\* A later attempt went to another host than the attempt before it, whose host
\* the store no longer listed as active when the later attempt resolved.
C2_Witness ==
    /\ attempt["t1"].sent # NoURL
    /\ attempt["t1"].prev # NoURL
    /\ attempt["t1"].prev # attempt["t1"].sent
    /\ ~URLOfOneOf(attempt["t1"].prev, attempt["t1"].hosts)

\* C3: a call never sends more than retry_count requests, two requests are
\* always separated by a sleep of retry_timeout, and a call whose every
\* attempt resolved an endpoint and failed on it ends with the exhaustion
\* error after exactly retry_count requests and retry_count sleeps.
C3_ExactlyRetryCountAttempts ==
    \A t \in Threads :
        client # None =>
            /\ Sends(t) <= client.retry_count
            /\ \A i, j \in DOMAIN log[t] :
                  (i < j /\ IsSend(log[t][i]) /\ IsSend(log[t][j]))
                      => \E k \in (i + 1)..(j - 1) : log[t][k] = "sleep"
            /\ slept[t] = Count(log[t], "sleep") * retry_timeout
            /\ (result[t] = "exhausted" /\ "resolve_err" \notin Range(log[t]))
                  => /\ BodyLog(t) = FailLog(client.retry_count)
                     /\ slept[t] = client.retry_count * retry_timeout

C3_Witness ==
    /\ client # None
    /\ client.retry_count = 3
    /\ result["t1"] = "exhausted"
    /\ BodyLog("t1") = FailLog(3)

\* C4: a successful request ends the call with its response: it is the last
\* step of the call, no resolution, request or sleep follows it.
C4_SuccessReturnsAtOnce ==
    \A t \in Threads :
        /\ \A i \in DOMAIN log[t] :
              log[t][i] = "send_ok"
                  => (i = Len(log[t]) /\ pc[t] = "idle" /\ result[t] = "ok")
        /\ result[t] = "ok"
              => (log[t] # <<>> /\ log[t][Len(log[t])] = "send_ok")

\* A call that succeeded on a retry
C4_Witness ==
    /\ result["t1"] = "ok"
    /\ retry_number["t1"] >= 1
    /\ Count(log["t1"], "send_fail") >= 1

-----------------------------------------------------------------------------
(* Properties of the resolution methods (ResolveSpec) *)

\* The base URLs a collection document offers: of the active replicas of its
\* active shards, of those flagged leader when only_leader
ActiveURLs(doc, only_leader) ==
    {r.base_url : r \in
        {q \in UNION {Range(sh.replicas) :
                        sh \in {s \in Range(doc.shards) : s.state = ACTIVE}} :
            q.state = ACTIVE /\ (only_leader => q.leader = TRUE_)}}

\* Some replica is active and flagged leader, whatever the state of its shard
HasActiveLeaderReplica(doc) ==
    \E sh \in Range(doc.shards) :
        \E r \in Range(sh.replicas) : r.state = ACTIVE /\ r.leader = TRUE_

\* The base URLs of the replicas that are active and flagged leader, whatever
\* the state of their shard
ActiveLeaderReplicaURLs(doc) ==
    {r.base_url : r \in
        {q \in UNION {Range(sh.replicas) : sh \in Range(doc.shards)} :
            q.state = ACTIVE /\ q.leader = TRUE_}}

\* The name is resolved as a collection the store knows
RealCollection(n) == ~IsAlias(n) /\ n \in DOMAIN collections

\* The alias graph: the names an alias stands for, and the names reached
Targets(n) == IF IsAlias(n) THEN Range(Split(aliases.dict[n])) ELSE {}

RECURSIVE ReachFrom(_)
ReachFrom(S) ==
    LET S2 == S \cup UNION {Targets(n) : n \in S}
    IN  IF S2 = S THEN S ELSE ReachFrom(S2)

Reach(n) == ReachFrom({n})
ReachPlus(n) == ReachFrom(Targets(n))
Acyclic(n) == \A m \in Reach(n) : m \notin ReachPlus(m)
OnlyAliases(n) == \A m \in Reach(n) : IsAlias(m)
Leaves(n) == {m \in Reach(n) : ~IsAlias(m)}

\* C5 as stated: for a collection with an active replica flagged leader,
\* getLeaderURL returns one URL, of a replica that is active and flagged leader.
C5_LeaderURLForAnyActiveLeader ==
    (/\ ret.op = "getLeaderURL"
     /\ RealCollection(ret.name)
     /\ HasActiveLeaderReplica(collections[ret.name]))
        => /\ ret.err = NoError
           /\ \E h \in ActiveLeaderReplicaURLs(collections[ret.name]) :
                 ret.url = FormatURL(h, ret.name)

\* C5: for a collection with a replica that is active and flagged leader in
\* an active shard, getLeaderURL returns one URL, and the URL getLeaderURL
\* returns for a collection is always the base URL of such a replica, followed
\* by the collection name; never the URL of a replica that is not leader.
C5_LeaderURLIsActiveLeader ==
    (ret.op = "getLeaderURL" /\ RealCollection(ret.name))
        => /\ ActiveURLs(collections[ret.name], TRUE) # {} => ret.err = NoError
           /\ ret.err = NoError
                 => \E h \in ActiveURLs(collections[ret.name], TRUE) :
                       ret.url = FormatURL(h, ret.name)

\* getLeaderURL answered for a collection that also has an active replica,
\* on another node, that is not leader
C5_Witness ==
    /\ ret.op = "getLeaderURL"
    /\ RealCollection(ret.name)
    /\ ret.err = NoError
    /\ ActiveURLs(collections[ret.name], FALSE)
          \ ActiveURLs(collections[ret.name], TRUE) # {}

\* C6: for a known collection without an active replica in an active shard,
\* getRandomURL and getLeaderURL raise the no-active-shards error, which is
\* not the unknown-collection error, and getHosts returns the empty list.
C6_NoActiveReplicaIsNoCapacity ==
    (/\ ret.op # "none"
     /\ RealCollection(ret.name)
     /\ ActiveURLs(collections[ret.name], FALSE) = {})
        => /\ ret.op \in {"getRandomURL", "getLeaderURL"}
                 => /\ ret.err = NoActiveShards
                    /\ ret.err # UnknownCollection
                    /\ ret.url = NoURL
           /\ ret.op = "getHosts" => (ret.err = NoError /\ ret.hosts = <<>>)

\* getRandomURL refused a collection whose only active replica is in an
\* inactive shard
C6_Witness ==
    /\ ret.op = "getRandomURL"
    /\ RealCollection(ret.name)
    /\ ret.err = NoActiveShards
    /\ \E sh \in Range(collections[ret.name].shards) :
          /\ sh.state # ACTIVE
          /\ \E r \in Range(sh.replicas) : r.state = ACTIVE

\* C7: a name that is neither an alias nor a collection of the store makes
\* getHosts, getRandomURL and getLeaderURL raise the unknown-collection error,
\* and SolrCloud.__init__ raise it without yielding a client.
C7_UnknownNameIsNotFound ==
    /\ (ret.op # "none" /\ ~IsAlias(ret.name) /\ ret.name \notin DOMAIN collections)
          => (ret.err = UnknownCollection /\ ret.hosts = <<>> /\ ret.url = NoURL)
    /\ (ctor.called /\ ~IsAlias(ctor.name) /\ ctor.name \notin DOMAIN collections)
          => (ctor.err = UnknownCollection /\ client = None /\ url = NoURL)

\* SolrCloud.__init__ refused a name before any notification filled the store
C7_Witness ==
    /\ collections = <<>>
    /\ aliases = EmptyDict
    /\ ctor.called
    /\ ctor.err = UnknownCollection
    /\ client = None

\* C8: the list getHosts returns holds no URL twice.
C8_NoDuplicateHosts ==
    (ret.op = "getHosts" /\ ret.err = NoError)
        => \A i, j \in DOMAIN ret.hosts : ret.hosts[i] = ret.hosts[j] => i = j

\* getHosts of an alias of two collections that share their only node
C8_Witness ==
    /\ ret.op = "getHosts"
    /\ ret.err = NoError
    /\ IsAlias(ret.name)
    /\ Leaves(ret.name) = {X, Y}
    /\ {X, Y} \subseteq DOMAIN collections
    /\ ActiveURLs(collections[X], ret.only_leader) = {U1}
    /\ ActiveURLs(collections[Y], ret.only_leader) = {U1}
    /\ ret.hosts = <<U1>>

\* C9: getHosts (and what calls it) ends without exhausting the call stack
\* for every alias map, and for a name from which only aliases are reached
\* (a cycle of aliases) it returns the empty list without raising.
C9_AliasCyclesTerminate ==
    /\ ret.op # "none" => ret.err # RecursionError
    /\ ctor.called => ctor.err # RecursionError
    /\ (ret.op = "getHosts" /\ OnlyAliases(ret.name))
          => (ret.err = NoError /\ ret.hosts = <<>>)

\* getHosts of an alias in a cycle of two aliases
C9_Witness ==
    /\ ret.op = "getHosts"
    /\ ret.name = A
    /\ Targets(A) = {B}
    /\ Targets(B) = {A}
    /\ ret.err = NoError
    /\ ret.hosts = <<>>

\* C10: for an alias whose alias graph has no cycle and ends in collections
\* of the store, getHosts returns exactly the union of the hosts getHosts
\* returns for each of these collections with the same only_leader.
C10_AliasHostsAreTheUnion ==
    (/\ ret.op = "getHosts"
     /\ IsAlias(ret.name)
     /\ Acyclic(ret.name)
     /\ Leaves(ret.name) \subseteq DOMAIN collections)
        => /\ ret.err = NoError
           /\ Range(ret.hosts) =
                 UNION {Range(GetHosts(c, ret.only_leader).hosts) : c \in Leaves(ret.name)}

\* getHosts of an alias of an alias: one collection reached on two paths,
\* and two different hosts.
C10_Witness ==
    /\ ret.op = "getHosts"
    /\ ret.name = A
    /\ IsAlias(B)
    /\ Targets(A) = {B, X}
    /\ Targets(B) = {X, Y}
    /\ {X, Y} \subseteq DOMAIN collections
    /\ ret.err = NoError
    /\ Len(ret.hosts) = 2

-----------------------------------------------------------------------------
(* Errors of the retry loop (Spec) *)

\* C11: an attempt that finds the client's collection unknown ends the call at
\* once with the "Unknown collection" error: no sleep and no further attempt
\* follows it.
C11_UnknownCollectionSurfacedAtOnce ==
    \A t \in Threads :
        attempt[t].err = UnknownCollection
            => (pc[t] = "idle" /\ result[t] = UnknownCollection)

\* C12: a call ends with a response, with the exhaustion error or with the
\* "Unknown collection" error; the no-capacity error of a resolution is never
\* what the caller receives.
C12_CallEndsOkExhaustedOrUnknown ==
    \A t \in Threads :
        result[t] \in {"none", "ok", "exhausted", UnknownCollection}

-----------------------------------------------------------------------------
(* Failover scenarios (FailoverSpec) *)

\* C13: a write that started while r1 (on u1) was the active leader, whose
\* first attempt was sent to r1 and failed, and whose second attempt resolved
\* after a notification had made r1 inactive and r2 (on u2) the active
\* leader, sends its second request to r2, within the retry_count attempts of
\* the call.
C13_SecondAttemptGoesToNewLeader ==
    \A t \in Threads :
        (/\ kind[t] = "write"
         /\ hist.leader = FormatURL(U1, X)
         /\ retry_number[t] = 1
         /\ Len(log[t]) >= 4
         /\ SubSeq(log[t], 1, 4) = <<"leader", "resolve", "send_fail", "sleep">>
         /\ attempt[t].prev = FormatURL(U1, X)
         /\ attempt[t].leaders = <<U2>>
         /\ U1 \notin Range(attempt[t].hosts)
         /\ attempt[t].sent # NoURL)
            => /\ attempt[t].sent = FormatURL(U2, X)
               /\ Sends(t) <= client.retry_count

-----------------------------------------------------------------------------
(* Outcomes of a call (Spec) *)

\* The attempts of the call that failed, in resolving or in sending
FailedAttempts(t) == Count(log[t], "send_fail") + Count(log[t], "resolve_err")

ExhaustedError(t) ==
    [method |-> IF kind[t] = "read" THEN "get" ELSE "post",
     path |-> IF kind[t] = "read" THEN "select" ELSE "update",
     attempts |-> client.retry_count]

\* A call of _send_request is running
InSendRequest(t) == pc[t] \in {"loop", "send", "except"}

-----------------------------------------------------------------------------
(* Solr.search with a cursorMark, Results.__len__ and Results.__iter__       *)

\* cursorMark="*", the mark before the first document; the mark after the
\* k-th document of the sorted result set is k
Star == 0

Min(a, b) == IF a < b THEN a ELSE b

\* The sorted result set of n documents
Index(n) == [k \in 1..n |-> k]

\* Solr's response to a select with cursorMark and rows over n documents: the
\* next rows documents after the mark, and the mark after the last of them
Select(n, cursorMark, rows) ==
    LET last == Min(cursorMark + rows, n)
    IN  [docs |-> SubSeq(Index(n), cursorMark + 1, last),
         numFound |-> n,
         nextCursorMark |-> last]

\* Solr.search and Results.__init__: the Results of one page
search(n, cursorMark, rows) ==
    LET decoded == Select(n, cursorMark, rows)
    IN  [docs |-> decoded.docs,
         hits |-> decoded.numFound,
         nextCursorMark |-> decoded.nextCursorMark,
         next_page_query |-> cursorMark # decoded.nextCursorMark]

\* Results.__len__
ResultsLen(r) == IF r.next_page_query THEN r.hits ELSE Len(r.docs)

\* "while result": None is false, a Results is true if its length is not 0
ResultsBool(r) == r # None /\ ResultsLen(r) # 0

\* results = solr.search(q, cursorMark=start, rows=rows, sort=...)
Search ==
    /\ cursor.pc = "new"
    /\ cursor' = [cursor EXCEPT
                    !.pc = "iter",
                    !.results = search(cursor.n, cursor.start, cursor.rows),
                    !.requests = <<cursor.start>>]
    /\ UNCHANGED <<cloudVars, deletion>>

\* iter(results): "result = self"
Iter ==
    /\ cursor.pc = "iter"
    /\ cursor' = [cursor EXCEPT !.pc = "while", !.result = cursor.results]
    /\ UNCHANGED <<cloudVars, deletion>>

\* "while result:"
While ==
    /\ cursor.pc = "while"
    /\ cursor' = IF ResultsBool(cursor.result)
                 THEN [cursor EXCEPT !.pc = "for", !.i = 1]
                 ELSE [cursor EXCEPT !.pc = "done"]
    /\ UNCHANGED <<cloudVars, deletion>>

\* "for d in result.docs: yield d"
Yield ==
    /\ cursor.pc = "for"
    /\ cursor.i <= Len(cursor.result.docs)
    /\ cursor' = [cursor EXCEPT
                    !.yielded = Append(cursor.yielded, cursor.result.docs[cursor.i]),
                    !.i = cursor.i + 1]
    /\ UNCHANGED <<cloudVars, deletion>>

\* "result = result._next_page_query and result._next_page_query()"
NextPage ==
    /\ cursor.pc = "for"
    /\ cursor.i > Len(cursor.result.docs)
    /\ cursor' = IF cursor.result.next_page_query
                 THEN [cursor EXCEPT
                         !.pc = "while",
                         !.result = search(cursor.n, cursor.result.nextCursorMark,
                                           cursor.rows),
                         !.requests = Append(cursor.requests,
                                             cursor.result.nextCursorMark)]
                 ELSE [cursor EXCEPT !.pc = "while", !.result = None]
    /\ UNCHANGED <<cloudVars, deletion>>

\* A search over n documents, rows documents a page, from the mark start
CursorInit ==
    /\ StoreInit
    /\ CallerInit
    /\ ZkInit
    /\ deletion = NoDeletion
    /\ \E n \in 0..MaxDocs, rows \in 1..MaxRows :
       \E start \in Star..n :
          cursor = [pc |-> "new", n |-> n, rows |-> rows, start |-> start,
                    results |-> None, result |-> None, i |-> 0,
                    yielded |-> <<>>, requests |-> <<>>]

CursorNext == Search \/ Iter \/ While \/ Yield \/ NextPage

CursorSpec == CursorInit /\ [][CursorNext]_vars

\* C17: when the iteration of the Results of a search with a cursorMark ends,
\* every page after the first was requested with the nextCursorMark of the
\* page before it, the last page answered with the cursorMark it was asked
\* with, the documents yielded are all documents of the result set, in order
\* and each once, and len(results) is their number.
C17_CursorWalksAllDocuments ==
    cursor.pc = "done" =>
        /\ \A k \in 1..(Len(cursor.requests) - 1) :
              cursor.requests[k + 1] =
                  Select(cursor.n, cursor.requests[k], cursor.rows).nextCursorMark
        /\ LET last == cursor.requests[Len(cursor.requests)]
           IN  Select(cursor.n, last, cursor.rows).nextCursorMark = last
        /\ cursor.yielded = Index(cursor.n)
        /\ ResultsLen(cursor.results) = Len(cursor.yielded)

-----------------------------------------------------------------------------
(* Solr.delete *)

\* A str argument; None is the absent one
Str(s) == [str |-> s]
List(l) == [list |-> l]

D1 == <<"d", "1">>
D2 == <<"d", "2">>
Q1 == <<"*", ":", "*">>

IdEntries == {None, Str(<<>>), Str(D1), Str(D2)}
IdArgs ==
    {None, Str(<<>>), Str(D1)} \cup {List(l) : l \in SeqsUpTo(IdEntries, MaxIds)}
QArgs == {None, Str(<<>>), Str(Q1)}

ValueError == "ValueError"

\* isinstance(id, (list, set, tuple))
IsList(id) == "list" \in DOMAIN id

FalsyOnlyNone(e) == e = None

\* what filter(None, id) drops: None and the empty string
Falsy(e) == e = None \/ e.str = <<>>

\* list(filter(None, id))
Filter(l) == SelectSeq(l, LAMBDA e : ~Falsy(e))

\* Solr.delete up to the call of _update: the error raised, or the message
delete(id, q) ==
    IF id = None /\ q = None THEN [err |-> ValueError]
    ELSE IF id # None /\ q # None THEN [err |-> ValueError]
    ELSE IF id # None
         THEN LET doc_id == IF ~IsList(id) THEN <<id>> ELSE Filter(id.list)
              IN  IF doc_id # <<>>
                  THEN [err |-> NoError, message |-> [delete |-> "id", values |-> doc_id]]
                  ELSE [err |-> ValueError]
    ELSE [err |-> NoError, message |-> [delete |-> "query", values |-> <<q>>]]

\* Solr._update: one POST of the message to the update handler
SolrUpdate(requests, message) ==
    Append(requests, [method |-> "post", path |-> "update", body |-> message])

\* solr.delete(id=id, q=q) on a plain Solr client
Delete(id, q) ==
    /\ ~deletion.called
    /\ LET r == delete(id, q)
       IN  deletion' = [called |-> TRUE, id |-> id, q |-> q, err |-> r.err,
                        requests |-> IF r.err = NoError
                                     THEN SolrUpdate(<<>>, r.message)
                                     ELSE <<>>]
    /\ UNCHANGED <<cloudVars, cursor>>

DeleteInit == StoreInit /\ CallerInit /\ SolrInit /\ ZkInit

DeleteNext == \E id \in IdArgs, q \in QArgs : Delete(id, q)

DeleteSpec == DeleteInit /\ [][DeleteNext]_vars

\* The id argument is a list with no entry left after dropping the entries
\* that satisfy Dropped
EmptyList(id, Dropped(_)) ==
    /\ id # None
    /\ IsList(id)
    /\ \A k \in DOMAIN id.list : Dropped(id.list[k])

\* A null entry or an empty string
NullOrEmpty(e) == e \in {None, Str(<<>>)}

\* One update request was sent, with the message of the call
SentOnce ==
    /\ deletion.err = NoError
    /\ Len(deletion.requests) = 1
    /\ deletion.requests[1].body.values =
          IF deletion.id = None THEN <<deletion.q>>
          ELSE IF IsList(deletion.id)
               THEN SelectSeq(deletion.id.list, LAMBDA e : ~NullOrEmpty(e))
          ELSE <<deletion.id>>

RaisedUnsent == deletion.err = ValueError /\ deletion.requests = <<>>

\* C18 as stated: the list counts as empty when only null entries are dropped
C18_DeleteNeedsOneOfIdAndQNulls ==
    deletion.called =>
        IF \/ deletion.id = None /\ deletion.q = None
           \/ deletion.id # None /\ deletion.q # None
           \/ EmptyList(deletion.id, LAMBDA e : e = None)
        THEN RaisedUnsent
        ELSE SentOnce

\* C18: delete raises ValueError and sends nothing when neither or both of id
\* and q are given, or when id is a list with no entry left after dropping the
\* null and the empty entries; in every other case it sends exactly one update
\* request, with the ids left or the query.
C18_DeleteNeedsOneOfIdAndQ ==
    deletion.called =>
        IF \/ deletion.id = None /\ deletion.q = None
           \/ deletion.id # None /\ deletion.q # None
           \/ EmptyList(deletion.id, NullOrEmpty)
        THEN RaisedUnsent
        ELSE SentOnce

\* A list with null entries around one id: one request, for that id
C18_Witness ==
    /\ deletion.called
    /\ deletion.id = List(<<None, Str(D1), None>>)
    /\ deletion.q = None
    /\ Len(deletion.requests) = 1
    /\ deletion.requests[1].body.values = <<Str(D1)>>

-----------------------------------------------------------------------------
(* Errors of the resolution inside the retry loop (Spec) *)

\* The last n steps of the call
LastSteps(t, n) == SubSeq(log[t], Len(log[t]) - n + 1, Len(log[t]))

\* C19 as stated: a read whose attempt k found no endpoint succeeds with
\* attempt k+1 whenever a replica that attempt k+1 found active answers.
C19_NextAttemptSucceedsIfOneAnswers ==
    [][\A t \in Threads :
          (/\ kind[t] = "read"
           /\ pc[t] = "send"
           /\ pc'[t] # "send"
           /\ Len(log[t]) >= 3
           /\ LastSteps(t, 3) = <<"resolve_err", "sleep", "resolve">>
           /\ \E h \in Range(attempt[t].hosts) : h \in up)
              => result'[t] = "ok"]_vars

\* C19: an error of the resolution of an attempt (no active shards, unknown
\* collection) is handled like a failed request: the call goes on, the
\* attempt is consumed, the sleep follows, and the next attempt resolves
\* again; a read whose attempt found no endpoint and whose next attempt
\* resolves to a replica that answers succeeds.
C19_ResolveErrorIsRetried ==
    \A t \in Threads :
        client # None =>
            /\ \A k \in DOMAIN log[t] :
                  log[t][k] = "resolve_err"
                      => /\ k = Len(log[t])
                            => /\ pc[t] = "except"
                               /\ result[t] = "none"
                               /\ attempt[t].err \in {UnknownCollection, NoActiveShards}
                         /\ k < Len(log[t]) => log[t][k + 1] = "sleep"
                         /\ k + 1 < Len(log[t])
                               => log[t][k + 2] \in {"resolve", "resolve_err"}
            /\ pc[t] # "idle" => retry_number[t] = Count(log[t], "sleep")
            /\ Count(log[t], "resolve") + Count(log[t], "resolve_err")
                  <= client.retry_count
            /\ (/\ kind[t] = "read"
                /\ Len(log[t]) >= 4
                /\ LastSteps(t, 4) = <<"resolve_err", "sleep", "resolve", "send_ok">>)
                  => result[t] = "ok"

\* A read found no endpoint at its first attempt and succeeded with its second
C19_Witness ==
    /\ kind["t1"] = "read"
    /\ log["t1"] = <<"resolve_err", "sleep", "resolve", "send_ok">>
    /\ result["t1"] = "ok"
    /\ retry_number["t1"] = 1
    /\ slept["t1"] = retry_timeout

-----------------------------------------------------------------------------
(* Writes to a collection without an active leader (Spec) *)

\* C20: a write to a known collection that has no active leader is not
\* failed at once: a write that has ended without a response has spent the
\* retry_count attempts of the retry loop, with a sleep after each, and its
\* caller got the exhaustion error.
C20_LeaderlessWriteIsRetried ==
    \A t \in Threads :
        (/\ kind[t] = "write"
         /\ pc[t] = "idle"
         /\ result[t] \notin {"none", "ok", UnknownCollection})
            => /\ result[t] = "exhausted"
               /\ Count(log[t], "sleep") = client.retry_count
               /\ slept[t] = client.retry_count * retry_timeout

-----------------------------------------------------------------------------
(* getHosts beside the watch callbacks (RaceSpec).  kazoo runs the watch    *)
(* callbacks on its own thread, so a callback can run between any two reads *)
(* that a getHosts call on a caller's thread makes of self.aliases and      *)
(* self.collections.  A step of the reader is one read of a field; the      *)
(* nested getHosts calls of an alias are taken in one step.                 *)

TypeError == "TypeError"
KeyError == "KeyError"

RaceData == {Dict([c \in {X} |-> d]) : d \in SmallDocs}

readerFrame ==
    UNCHANGED <<storeVars, ret, client, ctor, url, up, callVars, hist, solrVars,
                liveNodes, state, watches, zhist>>

ReaderAt(p) == [reader EXCEPT !.pc = p]
ReaderEnds(e, hosts) == [reader EXCEPT !.pc = "done", !.err = e, !.hosts = hosts]

\* getHosts(collname, only_leader) is called
ReadStart(collname, only_leader) ==
    /\ reader.pc \in {"none", "done"}
    /\ reader' = [pc |-> "1525", name |-> collname, only_leader |-> only_leader,
                  err |-> NoError, hosts |-> <<>>]
    /\ readerFrame

\* line 1525, "self.aliases and ...": the first read of self.aliases
ReadAliasesTruth ==
    /\ reader.pc = "1525"
    /\ reader' = ReaderAt(IF Truthy(aliases) THEN "1525in" ELSE "1529")
    /\ readerFrame

\* line 1525, "collname in self.aliases": the second read of self.aliases
ReadAliasesIn ==
    /\ reader.pc = "1525in"
    /\ reader' = IF aliases = None THEN ReaderEnds(TypeError, <<>>)
                 ELSE IF reader.name \in DOMAIN aliases.dict THEN ReaderAt("1557")
                 ELSE ReaderAt("1529")
    /\ readerFrame

\* line 1557, "self.aliases[collname]": the third read, in getAliasHosts; then
\* the loop of lines 1559-1563
ReadAliasesItem ==
    /\ reader.pc = "1557"
    /\ reader' =
          IF aliases = None THEN ReaderEnds(TypeError, <<>>)
          ELSE IF reader.name \notin DOMAIN aliases.dict THEN ReaderEnds(KeyError, <<>>)
          ELSE LET r == AliasLoop(Split(aliases.dict[reader.name]), 1,
                                  reader.only_leader, SeenWith(reader.name, <<>>),
                                  <<>>, 1)
               IN  ReaderEnds(r.err, r.hosts)
    /\ readerFrame

\* line 1529, "collname not in self.collections": the first read of
\* self.collections
ReadCollectionsIn ==
    /\ reader.pc = "1529"
    /\ reader' = IF reader.name \notin DOMAIN collections
                 THEN ReaderEnds(UnknownCollection, <<>>)
                 ELSE ReaderAt("1531")
    /\ readerFrame

\* line 1531, "self.collections[collname]": the second read; then the loops of
\* lines 1532-1547 over the document it got
ReadCollectionsItem ==
    /\ reader.pc = "1531"
    /\ reader' = IF reader.name \notin DOMAIN collections
                 THEN ReaderEnds(KeyError, <<>>)
                 ELSE ReaderEnds(NoError,
                                 CollectionHosts(collections[reader.name],
                                                 reader.only_leader))
    /\ readerFrame

RaceNext ==
    \/ \E data \in ClusterStateData : watchClusterState(data) /\ NoHistory
    \/ \E data \in RaceData : watchCollectionState(data) /\ NoHistory
    \/ \E data \in AliasData : watchAliases(data) /\ NoHistory
    \/ \E n \in {X, A}, ol \in BOOLEAN : ReadStart(n, ol)
    \/ ReadAliasesTruth
    \/ ReadAliasesIn
    \/ ReadAliasesItem
    \/ ReadCollectionsIn
    \/ ReadCollectionsItem

RaceSpec == Init /\ [][RaceNext]_vars

\* C21: a getHosts call that runs while notifications arrive ends with a host
\* list or with the "Unknown collection" error, and with no other error.
C21_ResolutionEndsWithHostsOrKnownError ==
    reader.pc = "done" => reader.err \in {NoError, UnknownCollection, NoActiveShards}

-----------------------------------------------------------------------------
(* Live-node notifications while a call runs (NodesSpec).  A node is named   *)
(* by the base_url of the replicas it hosts.                                 *)

\* watchLiveNodes, lines 1491-1493
watchLiveNodes(children) ==
    /\ liveNodes' = children
    /\ UNCHANGED <<storeVars, ret, client, ctor, url, up, callVars, hist, solrVars,
                   state, watches, reader>>

NodesNext ==
    \/ \E data \in LiveData : watchCollectionState(data) /\ NoHistory
    \/ \E children \in SUBSET BaseURLs : watchLiveNodes(children) /\ UNCHANGED zhist
    \/ \E h \in BaseURLs : NodeChange(h) /\ NoHistory
    \/ \E rc \in FailoverRetryCounts : Construct(X, rc) /\ NoHistory
    \/ StartRead("t1") /\ NoHistory
    \/ StartWrite("t1") /\ NoHistory
    \/ CallStep("t1")

NodesSpec == Init /\ [][NodesNext]_vars

\* C22: when the last live-node notification named some nodes and not node n,
\* the resolution of a retry attempt does not return the URL of a replica on
\* n: a call whose last request went to n and failed is sent elsewhere.
C22_RetryAvoidsNodeNotLive ==
    [][\A t \in Threads : \A n \in BaseURLs :
          (/\ liveNodes # {}
           /\ n \notin liveNodes
           /\ retry_number[t] >= 1
           /\ LastSent(t) = FormatURL(n, client.collection)
           /\ pc[t] = "loop"
           /\ pc'[t] = "send")
              => url' # FormatURL(n, client.collection)]_vars

-----------------------------------------------------------------------------
(* The store and its notifications alone (StoreSpec): the callbacks that     *)
(* ZooKeeper.__init__ registers, lines 1474-1522.  A state.json watch        *)
(* delivers the document of its own collection, {name: document}, or no data *)
(* when the node does not exist.                                             *)

\* The values of KazooState
LOST == [kazoo |-> "LOST"]
SUSPENDED == [kazoo |-> "SUSPENDED"]
CONNECTED == [kazoo |-> "CONNECTED"]
KazooStates == {LOST, SUSPENDED, CONNECTED}

connectionListenerReset(s) ==
    /\ state' = IF s = LOST THEN s ELSE IF s = SUSPENDED THEN s ELSE state
    /\ collections' = IF s = LOST THEN <<>> ELSE collections
    /\ UNCHANGED <<aliases, ret, client, ctor, url, up, callVars, hist, solrVars,
                   liveNodes, watches, reader>>

\* connectionListener, lines 1474-1478
connectionListener(s) ==
    /\ state' = IF s = LOST THEN s ELSE IF s = SUSPENDED THEN s ELSE state
    /\ UNCHANGED <<storeVars, ret, client, ctor, url, up, callVars, hist, solrVars,
                   liveNodes, watches, reader>>

watchCollectionStatusReplace(children) ==
    /\ watches' = children
    /\ UNCHANGED <<storeVars, ret, client, ctor, url, up, callVars, hist, solrVars,
                   liveNodes, state, reader>>

\* watchCollectionStatus, lines 1519-1522: a DataWatch of watchCollectionState
\* on the state.json of every child; a watch registered again delivers the
\* same data once more
watchCollectionStatus(children) ==
    /\ watches' = watches \cup children
    /\ UNCHANGED <<storeVars, ret, client, ctor, url, up, callVars, hist, solrVars,
                   liveNodes, state, reader>>

\* Two collection documents: a replica on u1 that is the leader, a replica on
\* u2 that is not
StoreDocs ==
    {[shards |-> <<[state |-> ACTIVE,
                    replicas |-> <<[state |-> ACTIVE, leader |-> TRUE_, base_url |-> U1]>>]>>],
     [shards |-> <<[state |-> ACTIVE,
                    replicas |-> <<[state |-> ACTIVE, leader |-> FALSE_, base_url |-> U2]>>]>>]}

\* What the watch of /collections/c/state.json delivers
StoreStateData(c) == {None} \cup {Dict([k \in {c} |-> d]) : d \in StoreDocs}

\* What the watch of /clusterstate.json delivers
StoreClusterData == ClusterStateData \cup {Dict([k \in {X} |-> d]) : d \in StoreDocs}

\* What the watch of /aliases.json delivers
StoreAliasData ==
    AliasData \cup {Dict([collection |-> [a \in {B} |-> Y]]),
                    Dict([collection |-> <<>>])}

storeFrame == UNCHANGED <<hist, solrVars, liveNodes, state, watches, reader>>

\* Notification n was delivered
Notified(n) == zhist' = [zhist EXCEPT !.last = n, !.quiet = FALSE]

\* The collection list named these collections
Announced(children) ==
    zhist' = [zhist EXCEPT !.announced = @ \cup children,
                           !.last = [kind |-> "status", children |-> children],
                           !.quiet = FALSE]

StoreNext ==
    \/ \E data \in StoreClusterData :
          /\ watchClusterState(data)
          /\ storeFrame
          /\ Notified([kind |-> "cluster", data |-> data])
    \/ \E c \in watches : \E data \in StoreStateData(c) :
          /\ watchCollectionState(data)
          /\ storeFrame
          /\ Notified([kind |-> "collection", name |-> c, data |-> data])
    \/ \E data \in StoreAliasData :
          /\ watchAliases(data)
          /\ storeFrame
          /\ Notified([kind |-> "aliases", data |-> data])
    \/ \E children \in SUBSET BaseURLs :
          /\ watchLiveNodes(children)
          /\ Notified([kind |-> "liveNodes", children |-> children])
    \/ \E children \in SUBSET CollNames :
          watchCollectionStatus(children) /\ Announced(children)
    \/ \E s \in KazooStates : connectionListener(s) /\ UNCHANGED zhist

StoreSpec == Init /\ [][StoreNext]_vars

-----------------------------------------------------------------------------
(* The callbacks as functions of the store (StoreSpec) *)

\* The three fields the notifications write
Store == [collections |-> collections, aliases |-> aliases, liveNodes |-> liveNodes]

\* The notifications of StoreSpec that write a field
StoreNotifications ==
    {[kind |-> "cluster", data |-> d] : d \in StoreClusterData}
    \cup UNION {{[kind |-> "collection", name |-> c, data |-> d] :
                    d \in StoreStateData(c)} : c \in CollNames}
    \cup {[kind |-> "aliases", data |-> d] : d \in StoreAliasData}
    \cup {[kind |-> "liveNodes", children |-> ch] : ch \in SUBSET BaseURLs}

\* The store after the callback of notification n has run on store s:
\* watchClusterState, watchCollectionState, watchAliases, watchLiveNodes
Applied(s, n) ==
    CASE n.kind = "cluster" ->
            [s EXCEPT !.collections = IF ~HasData(n.data) THEN @ ELSE n.data.dict]
      [] n.kind = "collection" ->
            [s EXCEPT !.collections = IF ~HasData(n.data) THEN @
                                      ELSE Update(@, n.data.dict)]
      [] n.kind = "aliases" ->
            [s EXCEPT !.aliases = IF HasData(n.data)
                                  THEN IF COLLECTION \in DOMAIN n.data.dict
                                       THEN Dict(n.data.dict[COLLECTION])
                                       ELSE @
                                  ELSE None]
      [] n.kind = "liveNodes" -> [s EXCEPT !.liveNodes = n.children]

\* Every notification step of StoreSpec is the function of its notification
NotificationsApplied ==
    [][Store' # Store => \E n \in StoreNotifications : Store' = Applied(Store, n)]_vars

\* Notifications of different change types: of different kinds, or of the
\* states of two different collections
DifferentKinds(n1, n2) ==
    \/ n1.kind # n2.kind
    \/ n1.kind = "collection" /\ n1.name # n2.name

\* C23: two notifications of different kinds, applied to the store in either
\* order, leave the same collections, aliases and live nodes.
C23_NotificationsCommute ==
    \A n1, n2 \in StoreNotifications :
        DifferentKinds(n1, n2)
            => Applied(Applied(Store, n1), n2) = Applied(Applied(Store, n2), n1)

-----------------------------------------------------------------------------
(* What a notification leaves in the store (StoreSpec) *)

\* The alias mapping a document of /aliases.json holds: the value of its
\* "collection" key, and no alias when it has none
DeliveredAliases(data) ==
    IF COLLECTION \in DOMAIN data.dict THEN data.dict[COLLECTION] ELSE <<>>

\* The alias map: self.aliases, None being the map without a key
AliasMap == IF aliases = None THEN <<>> ELSE aliases.dict

\* C24: after an alias notification that delivers a document, the alias map
\* is the mapping of that document, and a name that is not a key of it is not
\* resolved as an alias.
C24_AliasNotificationReplacesMap ==
    (zhist.last.kind = "aliases" /\ HasData(zhist.last.data))
        => /\ AliasMap = DeliveredAliases(zhist.last.data)
           /\ \A n \in Names :
                 n \notin DOMAIN DeliveredAliases(zhist.last.data) => ~IsAlias(n)

\* The step delivers notification n
Delivered(n) == zhist'.last = n /\ (zhist.last # n \/ Store' # Store)

\* C25: a state notification of collection c that delivers a document makes
\* that document the entry of c, and leaves the entry of every other
\* collection, the live nodes and the aliases as they were.
C25_CollectionStateTouchesOneEntry ==
    [][\A c \in CollNames : \A d \in StoreDocs :
          Delivered([kind |-> "collection", name |-> c,
                     data |-> Dict([k \in {c} |-> d])])
              => /\ c \in DOMAIN collections'
                 /\ collections'[c] = d
                 /\ \A o \in CollNames \ {c} :
                       /\ o \in DOMAIN collections <=> o \in DOMAIN collections'
                       /\ o \in DOMAIN collections => collections'[o] = collections[o]
                 /\ liveNodes' = liveNodes
                 /\ aliases' = aliases]_vars

\* The state of y arrived while the store held an entry of x, live nodes and
\* an alias: the entry of x is still there
C25_Witness ==
    /\ zhist.last.kind = "collection"
    /\ zhist.last.name = Y
    /\ HasData(zhist.last.data)
    /\ DOMAIN collections = {X, Y}
    /\ collections[X] # collections[Y]
    /\ liveNodes = {U1}
    /\ AliasMap # <<>>

\* C26: after a collection-state notification without data the resolution of
\* that collection yields no host, and after an alias notification without
\* data no name is resolved as an alias.
C26_NoDataMeansNoTopology ==
    /\ (zhist.last.kind = "collection" /\ ~HasData(zhist.last.data))
          => GetHosts(zhist.last.name, FALSE).hosts = <<>>
    /\ (zhist.last.kind = "aliases" /\ ~HasData(zhist.last.data))
          => \A n \in Names : ~IsAlias(n)

\* C28: every collection that a collection-list notification has named has a
\* state watch, and the set of watched collections only grows.
C28_AnnouncedCollectionsAreWatched ==
    /\ [](zhist.announced \subseteq watches)
    /\ [][watches \subseteq watches']_vars

\* The last collection list named y and not x, which an earlier one had
\* named: both are watched
C28_Witness ==
    /\ zhist.last = [kind |-> "status", children |-> {Y}]
    /\ zhist.announced = {X, Y}
    /\ watches = {X, Y}

\* C29: a step that records a lost or suspended session changes no field of
\* the store and no watch, so every name resolves after it as before it.
C29_SessionLossKeepsStore ==
    [][state' # state
          => /\ state' \in {LOST, SUSPENDED}
             /\ Store' = Store
             /\ watches' = watches
             /\ \A n \in Names : \A ol \in BOOLEAN :
                   GetHosts(n, ol)' = GetHosts(n, ol)]_vars

\* The session is lost and x still resolves to its last-known active replica
C29_Witness ==
    /\ state = LOST
    /\ GetHosts(X, FALSE).err = NoError
    /\ GetHosts(X, FALSE).hosts = <<U1>>
    /\ GetHosts(A, TRUE).hosts = <<U1>>

-----------------------------------------------------------------------------
(* Resolution calls and requests between notifications (PureSpec) *)

\* A notification was delivered since the last direct call
Disturbed == zhist' = [zhist EXCEPT !.quiet = FALSE]

\* getHosts(collname, only_leader) was called: it repeats the last direct call
\* if that was the same call and no notification came since
Repeats(collname, only_leader) ==
    LET same == /\ zhist.quiet
                /\ ret.op = "getHosts"
                /\ ret.name = collname
                /\ ret.only_leader = only_leader
    IN  zhist' = [zhist EXCEPT
                     !.quiet = TRUE,
                     !.repeated = same,
                     !.differed = @ \/ (same /\ (ret'.err # ret.err
                                                 \/ ret'.hosts # ret.hosts))]

\* Another resolution method was called
Called == zhist' = [zhist EXCEPT !.quiet = TRUE, !.repeated = FALSE]

callFrame == UNCHANGED <<hist, solrVars, liveNodes, state, watches, reader>>

PureNext ==
    \/ \E data \in LiveData : watchCollectionState(data) /\ storeFrame /\ Disturbed
    \/ \E data \in AliasData : watchAliases(data) /\ storeFrame /\ Disturbed
    \/ \E n \in {X, A}, ol \in BOOLEAN :
          CallGetHosts(n, ol) /\ callFrame /\ Repeats(n, ol)
    \/ \E n \in {X, A} : CallGetRandomURL(n) /\ callFrame /\ Called
    \/ \E n \in {X, A} : CallGetLeaderURL(n) /\ callFrame /\ Called
    \/ \E c \in {X, A} : Construct(c, 1) /\ NoHistory
    \/ StartRead("t1") /\ NoHistory
    \/ StartWrite("t1") /\ NoHistory
    \/ CallStep("t1")

PureSpec == Init /\ [][PureNext]_vars

\* The step is a call of a resolution method or a step of a request
CallerStep ==
    \/ zhist'.quiet
    \/ <<ret, client, ctor, url, callVars>>' # <<ret, client, ctor, url, callVars>>

\* C27: no call of getHosts, getRandomURL or getLeaderURL and no step of a
\* request changes the collections, the aliases or the live nodes, and a
\* getHosts call that repeats the call before it, with no notification in
\* between, returns what that call returned.
C27_ResolutionIsPureRead ==
    /\ [](~zhist.differed)
    /\ [][CallerStep => Store' = Store]_vars

\* getHosts resolved an alias twice in a row, to the same host
C27_Witness ==
    /\ zhist.repeated
    /\ zhist.quiet
    /\ ret.op = "getHosts"
    /\ ret.name = A
    /\ ret.hosts # <<>>
    /\ result["t1"] = "ok"

-----------------------------------------------------------------------------
(* Two caller threads on one SolrCloud instance (ThreadsSpec) *)

\* What the step of thread t leaves in the history: the URL that its
\* resolution has assigned to self.url, until its next call starts
Chooses(t) ==
    /\ UNCHANGED <<hist, solrVars, liveNodes, state, watches, reader>>
    /\ zhist' = [zhist EXCEPT
                    !.chose[t] = IF pc'[t] = "send" /\ pc[t] = "loop" THEN url'
                                 ELSE IF pc[t] = "idle" THEN NoURL
                                 ELSE @]

ThreadsNext ==
    \/ \E data \in LiveData : watchCollectionState(data) /\ NoHistory
    \/ Construct(X, 1) /\ NoHistory
    \/ \E t \in Threads : StartRead(t) /\ Chooses(t)
    \/ \E t \in Threads : StartWrite(t) /\ Chooses(t)
    \/ \E t \in Threads : UpdateLeader(t) /\ Chooses(t)
    \/ \E t \in Threads : Resolve(t) /\ Chooses(t)
    \/ \E t \in Threads : \E ok \in BOOLEAN : Send(t, ok) /\ Chooses(t)
    \/ \E t \in Threads : Sleep(t) /\ Chooses(t)
    \/ \E t \in Threads : Exhausted(t) /\ Chooses(t)

ThreadsSpec == Init /\ [][ThreadsNext]_vars

\* C30: the request of an attempt goes to the URL that the resolution of this
\* attempt, on this thread, returned.
C30_RequestGoesToOwnResolution ==
    \A t \in Threads :
        attempt[t].sent # NoURL => attempt[t].sent = zhist.chose[t]

=============================================================================
